---- MODULE Spec2Model ----
(***************************************************************************)
(* Model of src/eval_runner.py: the evaluation-run driver of the Norwegian *)
(* LLM evaluation framework (main, load_tests, query_ollama and            *)
(* run_evaluation with its JSON snapshot and tab-separated export).        *)
(*                                                                         *)
(* Text is a sequence of one-character strings, so that str.replace, the   *)
(* [:500] slice and "\t".join act on characters.  A Python value is a      *)
(* tagged record: a str, an int, None, or Absent for a key a dict lacks.   *)
(***************************************************************************)
EXTENDS Integers, Sequences, FiniteSets, TLC

(* ------------------------------ bounds -------------------------------- *)
\* longest test list / input file (in lines) explored
MaxTests == 2
\* queries of one run whose backend outcome is not the plain success
MaxFaults == 1
\* responses up to CellLimit + MaxOver characters are exported (SpecCell)
MaxOver == 2
\* responses of 0..MaxShort characters are exported (SpecCell)
MaxShort == 3

(* ------------------------- program constants -------------------------- *)
\* resp[:500]
CellLimit == 500

TAB == "\t"
NL == "\n"
SP == " "

(* ---------------------------- Python values --------------------------- *)
PyStr(s) == [t |-> "str", s |-> s, n |-> 0]
PyInt(k) == [t |-> "int", s |-> <<>>, n |-> k]
None == [t |-> "none", s |-> <<>>, n |-> 0]
\* marks a key that a dict does not hold (never a value the program sees)
Absent == [t |-> "absent", s |-> <<>>, n |-> 0]

IsStr(v) == v.t = "str"

\* bool(v): the truth value Python's `or` tests
Truthy(v) ==
    CASE v.t = "str" -> v.s # <<>>
      [] v.t = "int" -> v.n # 0
      [] OTHER -> FALSE

\* variant of PyOr: falls back only when the first value is None
PyOrPresent(a, b) == IF a # None THEN a ELSE b

\* a or b
PyOr(a, b) == IF Truthy(a) THEN a ELSE b

\* d.get(k, default) on a dict modelled as a record of values, Absent = no key
DictGet(d, k, default) == IF d[k] = Absent THEN default ELSE d[k]

\* d[k] = v on a dict modelled as a function over its keys
DictSet(d, k, v) ==
    [x \in (DOMAIN d) \cup {k} |-> IF x = k THEN v ELSE d[x]]

\* d.get(k, default) on a dict modelled as a function over its keys
MapGet(d, k, default) == IF k \in DOMAIN d THEN d[k] ELSE default

EmptyDict == [x \in {} |-> None]

(* ------------------------------- text --------------------------------- *)
\* s.replace(old, new) for one-character old and new
Replace(s, old, new) == [k \in 1..Len(s) |-> IF s[k] = old THEN new ELSE s[k]]

\* s[:n]
Slice(s, n) == SubSeq(s, 1, IF Len(s) < n THEN Len(s) ELSE n)

\* sep.join(fields), fields a sequence of texts
RECURSIVE Join(_, _)
Join(fields, sep) ==
    IF fields = <<>> THEN <<>>
    ELSE IF Len(fields) = 1 THEN fields[1]
    ELSE fields[1] \o <<sep>> \o Join(Tail(fields), sep)

\* number of occurrences of character c in text s
Count(s, c) == Cardinality({k \in 1..Len(s) : s[k] = c})

(* --------------------------- static catalogs -------------------------- *)
\* "NB-Llama-3.2-3B"
NameNB == <<"N", "B", "-", "L", "l", "a", "m", "a", "-", "3", ".", "2", "-", "3", "B">>
\* "Llama-3.2-3B"
NameL32 == <<"L", "l", "a", "m", "a", "-", "3", ".", "2", "-", "3", "B">>
\* "Mistral-7B"
NameM7 == <<"M", "i", "s", "t", "r", "a", "l", "-", "7", "B">>
\* "Llama-3.1-8B"
NameL31 == <<"L", "l", "a", "m", "a", "-", "3", ".", "1", "-", "8", "B">>

\* a ModelSpec is the tuple <<display name, backend id>>
NORWEGIAN_MODELS ==
    << <<NameNB, "hf.co/NbAiLab/nb-llama-3.2-3B-Q4_K_M-GGUF:latest">> >>

INTERNATIONAL_MODELS ==
    << <<NameL32, "llama3.2:3b">>,
       <<NameM7, "mistral:7b">>,
       <<NameL31, "llama3.1:8b">> >>

\* variant of SelectModels: the default puts the international group first
SelectModelsIntlFirst(norwegian_only, international_only) ==
    IF norwegian_only THEN NORWEGIAN_MODELS
    ELSE IF international_only THEN INTERNATIONAL_MODELS
    ELSE INTERNATIONAL_MODELS \o NORWEGIAN_MODELS

\* main, lines 165-171: the model list the two flags select
SelectModels(norwegian_only, international_only) ==
    IF norwegian_only THEN NORWEGIAN_MODELS
    ELSE IF international_only THEN INTERNATIONAL_MODELS
    ELSE NORWEGIAN_MODELS \o INTERNATIONAL_MODELS

(* ----------------------------- query_ollama --------------------------- *)
\* options.num_predict
NumPredict == 250
\* timeout: int = 300
DefaultTimeout == 300

NO_RESPONSE == <<"[", "N", "O", SP, "R", "E", "S", "P", "O", "N", "S", "E", "]">>
TIMEOUT == <<"[", "T", "I", "M", "E", "O", "U", "T", "]">>

\* f"[ERROR: {e}]"
ErrorText(desc) == <<"[", "E", "R", "R", "O", "R", ":", SP>> \o desc \o <<"]">>

\* the request body and wait handed to requests.post
Request(model_id, prompt, timeout) ==
    [model |-> model_id, prompt |-> prompt, stream |-> FALSE,
     num_predict |-> NumPredict, temperature |-> "0.7", timeout |-> timeout]

\* What one requests.post(...) followed by response.json() can do:
\*   timeout    requests.exceptions.Timeout is raised
\*   exception  any other Exception is raised, by post or by json(); desc = str(e)
\*   json       the body parsed: a JSON object (isdict) holding `response`
\*              (or not: Absent), or another JSON value, of Python type
\*              desc (list, int, str, NoneType)
OutTimeout == [kind |-> "timeout", isdict |-> FALSE, response |-> Absent, desc |-> <<>>]
OutException(desc) == [kind |-> "exception", isdict |-> FALSE, response |-> Absent, desc |-> desc]
OutObject(resp) == [kind |-> "json", isdict |-> TRUE, response |-> resp, desc |-> <<>>]
OutNotObject(ty) == [kind |-> "json", isdict |-> FALSE, response |-> Absent, desc |-> ty]

\* str(e) of the AttributeError that data.get raises on a value that is no
\* dict: '<type>' object has no attribute 'get'
NoGetDesc(ty) ==
    <<"'">> \o ty \o
    <<"'", SP, "o", "b", "j", "e", "c", "t", SP, "h", "a", "s", SP, "n", "o", SP, "a", "t", "t", "r", "i", "b", "u", "t", "e", SP, "'", "g", "e", "t", "'">>

\* data.get("response", "[NO RESPONSE]"), line 44
PayloadResponse(reply) ==
    IF reply.response = Absent THEN PyStr(NO_RESPONSE) ELSE reply.response

\* query_ollama, lines 27-48: the value returned for one backend reply, and
\* the number of backend calls made (one requests.post, no loop around it)
query_ollama(model_id, prompt, timeout, reply) ==
    [request |-> Request(model_id, prompt, timeout),
     calls |-> 1,
     ret |-> CASE reply.kind = "timeout" -> PyStr(TIMEOUT)
               [] reply.kind = "exception" -> PyStr(ErrorText(reply.desc))
               [] reply.kind = "json" /\ ~reply.isdict -> PyStr(ErrorText(NoGetDesc(reply.desc)))
               [] OTHER -> PayloadResponse(reply)]

(* ------------------------------- inputs ------------------------------- *)
\* a JSON record of the input file: the four keys the program reads
Rec(id, question, q, category) ==
    [id |-> id, question |-> question, q |-> q, category |-> category]

\* {"id": "t1", "question": "Hva?", "category": "geo"}
RecFull == Rec(PyStr(<<"t", "1">>), PyStr(<<"H", "v", "a", "?">>), Absent, PyStr(<<"g", "e", "o">>))
\* {"q": "Z\n"}
RecOnlyQ == Rec(Absent, Absent, PyStr(<<"Z", NL>>), Absent)
\* {"id": "a\tb", "question": "", "q": "Z", "category": "c\nd"}
RecEmptyQuestion ==
    Rec(PyStr(<<"a", TAB, "b">>), PyStr(<<>>), PyStr(<<"Z">>), PyStr(<<"c", NL, "d">>))
\* {"id": 5}
RecNoQuestion == Rec(PyInt(5), Absent, Absent, Absent)

TestPool == {RecFull, RecOnlyQ, RecEmptyQuestion, RecNoQuestion}

\* a line of the input file: blank, not JSON, or a JSON record
BlankLine == [kind |-> "blank", rec |-> RecFull]
MalformedLine == [kind |-> "malformed", rec |-> RecFull]
RecordLine(r) == [kind |-> "record", rec |-> r]
LinePool == {BlankLine, MalformedLine, RecordLine(RecOnlyQ), RecordLine(RecNoQuestion)}

\* ModelSpec lists handed directly to run_evaluation: none, one, two, and
\* two that share a display name
ModelA == <<<<"A">>, "a-id">>
ModelB == <<<<"B">>, "b-id">>
ModelA2 == <<<<"A">>, "a2-id">>
ModelLists == { <<>>, <<ModelA>>, <<ModelA, ModelB>>, <<ModelB, ModelA>>, <<ModelA, ModelA2>> }

SeqsUpTo(S, n) == UNION {[1..k -> S] : k \in 0..n}

\* the text a backend generates when all goes well: "Os\tlo\n"
GenText == <<"O", "s", TAB, "l", "o", NL>>
OutSuccess == OutObject(PyStr(GenText))
\* every kind of reply (SpecQuery)
AllReplies ==
    { OutSuccess,
      OutTimeout,
      OutException(<<"r", "e", "f", "u", "s", "e", "d">>),
      OutNotObject(<<"l", "i", "s", "t">>),
      OutNotObject(<<"i", "n", "t">>),
      OutNotObject(<<"s", "t", "r">>),
      OutNotObject(<<"N", "o", "n", "e", "T", "y", "p", "e">>),
      OutObject(Absent),
      OutObject(None),
      OutObject(PyInt(7)) }
\* the replies a run meets other than the plain success: one that gives a
\* sentinel string, one whose `response` is not text
FaultReplies == {OutTimeout, OutObject(None)}
Replies == {OutSuccess} \cup FaultReplies

(* -------------------------------- state ------------------------------- *)
VARIABLES
    pc,           \* where the process is
    args,         \* parsed command line: via main or a direct call, the flags
    inputFile,    \* the --tests file: readable or not, its lines
    tests,        \* run_evaluation's tests
    models,       \* run_evaluation's models
    results,      \* the EvaluationRun being built
    done,         \* TestCases whose loop iteration has ended
    test_result,  \* the bundle being filled
    queried,      \* ModelSpecs queried for the current TestCase
    current,      \* progress counter
    jsonFile,     \* <prefix>.json on disk
    csvFile,      \* <prefix>.csv on disk
    csvOut,       \* what has been written to the open table's file object
    err,          \* the exception that ended the process, if any
    trace,        \* history: queries and file writes in the order they happened
    faults,       \* replies so far that were not the plain success
    cellIn,       \* SpecCell: a stored response
    cellOut       \* SpecCell: the cell exported for it

vars == <<pc, args, inputFile, tests, models, results, done, test_result,
          queried, current, jsonFile, csvFile, csvOut, err, trace, faults, cellIn, cellOut>>

NoResults == [timestamp |-> "", models |-> <<>>, tests |-> <<>>]
NoBundle == [id |-> None, question |-> None, category |-> None, responses |-> EmptyDict]
\* no file on disk
NoJson == [exists |-> FALSE, stale |-> FALSE, head |-> FALSE, models |-> <<>>,
           tests |-> <<>>, partial |-> FALSE, tail |-> FALSE]
\* text: the whole lines on disk; part: the start of the line after them,
\* when the file ends inside a line
NoCsv == [exists |-> FALSE, stale |-> FALSE, text |-> <<>>, part |-> <<>>]
NoFile == [readable |-> TRUE, lines |-> <<>>]

\* m[0] for m in models
ModelNames(ms) == [k \in 1..Len(ms) |-> ms[k][1]]

(* ------------------------------ load_tests ---------------------------- *)
\* load_tests, lines 17-24: the records of the non-blank lines, in file order
RECURSIVE LoadedRecords(_)
LoadedRecords(lines) ==
    IF lines = <<>> THEN <<>>
    ELSE IF lines[1].kind = "blank" THEN LoadedRecords(Tail(lines))
    ELSE <<lines[1].rec>> \o LoadedRecords(Tail(lines))

\* open() raises on an unreadable path, json.loads on a malformed line
LoadFails(file) ==
    \/ ~file.readable
    \/ \E k \in 1..Len(file.lines) : file.lines[k].kind = "malformed"

(* ---------------------------- run_evaluation -------------------------- *)
\* lines 73-78: the bundle a TestCase starts with
NewBundle(test) ==
    [id |-> DictGet(test, "id", PyStr(<<"u", "n", "k", "n", "o", "w", "n">>)),
     question |-> PyOr(DictGet(test, "question", None), DictGet(test, "q", None)),
     category |-> DictGet(test, "category", PyStr(<<"g", "e", "n", "e", "r", "a", "l">>)),
     responses |-> EmptyDict]

\* variant of BackendIdOf: every query goes to the first model's backend
BackendIdOfFirst(m) == models[1][2]

\* models[k][1], the id handed to query_ollama, line 80 and 84
BackendIdOf(m) == m[2]

\* variant of DumpedTests: only the newest bundle is written
DumpedLastOnly(res) == <<res.tests[Len(res.tests)]>>

\* line 91: json.dump(results, f) writes the whole run so far
DumpedTests(res) == res.tests

\* variant of ResponseCell: newlines are left in
ResponseCellTabOnly(resp) == Slice(Replace(resp, TAB, SP), CellLimit)

\* line 114
ResponseCell(resp) == Slice(Replace(Replace(resp, TAB, SP), NL, SP), CellLimit)

\* line 109
QuestionCell(question) == Replace(Replace(question, TAB, SP), NL, SP)

\* lines 107-108: id and category go into the row as they are
PlainCell(text) == text

\* line 101-102
HeaderLine(names) ==
    Join(<< <<"I", "D">>, <<"C", "a", "t", "e", "g", "o", "r", "y">>, <<"Q", "u", "e", "s", "t", "i", "o", "n">> >> \o names, TAB) \o <<NL>>

\* lines 106-117 for one bundle: the line written, or the exception raised.
\* test["question"].replace raises AttributeError on a non-str, so does
\* resp.replace; "\t".join raises TypeError on a non-str id or category.
RowOf(bundle, names) ==
    IF ~IsStr(bundle.question) THEN [ok |-> FALSE, err |-> "AttributeError", line |-> <<>>]
    ELSE IF \E k \in 1..Len(names) : ~IsStr(MapGet(bundle.responses, names[k], PyStr(<<>>)))
    THEN [ok |-> FALSE, err |-> "AttributeError", line |-> <<>>]
    ELSE IF ~IsStr(bundle.id) \/ ~IsStr(bundle.category)
    THEN [ok |-> FALSE, err |-> "TypeError", line |-> <<>>]
    ELSE [ok |-> TRUE, err |-> "",
          line |-> Join(<<PlainCell(bundle.id.s), PlainCell(bundle.category.s),
                          QuestionCell(bundle.question.s)>>
                        \o [k \in 1..Len(names) |->
                              ResponseCell(MapGet(bundle.responses, names[k], PyStr(<<>>)).s)],
                        TAB) \o <<NL>>]

\* history events
\* history events: a query (its request, the backend's reply, the backend calls
\* made, the value returned), or a file being opened or closed
QueryEvent(t, m, reply, r) ==
    [k |-> "query", t |-> t, m |-> m, reply |-> reply,
     req |-> r.request, calls |-> r.calls, ret |-> r.ret]
FileEvent(k, t) ==
    [k |-> k, t |-> t, m |-> 0, reply |-> OutTimeout,
     req |-> Request("", None, 0), calls |-> 0, ret |-> None]

(* ------------------------------- actions ------------------------------ *)
\* the process is gone: its memory with it, the files stay
Gone(how, why) ==
    /\ pc' = how
    /\ err' = why
    /\ args' = [main |-> FALSE, norwegian_only |-> FALSE, international_only |-> FALSE]
    /\ inputFile' = NoFile
    /\ tests' = <<>>
    /\ models' = <<>>
    /\ results' = NoResults
    /\ done' = 0
    /\ test_result' = NoBundle
    /\ queried' = 0
    /\ current' = 0
    /\ trace' = <<>>
    /\ faults' = 0
    /\ csvOut' = <<>>
    /\ UNCHANGED <<cellIn, cellOut>>

\* Nothing removes the output files before the run opens them (lines 90 and
\* 99) and the prefix defaults to "eval_results" (line 149): the run starts
\* with no files, or with those an earlier, finished run with the same prefix
\* left (two TestCases, models A and B)
EarlierBundle(id) ==
    [id |-> PyStr(id),
     question |-> PyStr(<<"H", "v", "a", "?">>),
     category |-> PyStr(<<"g", "e", "o">>),
     responses |-> DictSet(DictSet(EmptyDict, <<"A">>, PyStr(GenText)), <<"B">>, PyStr(TIMEOUT))]
EarlierTests == <<EarlierBundle(<<"e", "1">>), EarlierBundle(<<"e", "2">>)>>
EarlierJson ==
    [exists |-> TRUE, stale |-> TRUE, head |-> TRUE, models |-> << <<"A">>, <<"B">> >>,
     tests |-> EarlierTests, partial |-> FALSE, tail |-> TRUE]
EarlierCsv ==
    [exists |-> TRUE, stale |-> TRUE,
     text |-> <<HeaderLine(<< <<"A">>, <<"B">> >>)>>
              \o [k \in 1..Len(EarlierTests) |->
                    RowOf(EarlierTests[k], << <<"A">>, <<"B">> >>).line],
     part |-> <<>>]
DiskStarts == {<<NoJson, NoCsv>>, <<EarlierJson, EarlierCsv>>}

Idle ==
    /\ err = ""
    /\ results = NoResults
    /\ done = 0
    /\ test_result = NoBundle
    /\ queried = 0
    /\ current = 0
    /\ \E d \in DiskStarts : jsonFile = d[1] /\ csvFile = d[2]
    /\ csvOut = <<>>
    /\ trace = <<>>
    /\ faults = 0
    /\ cellIn = <<>>
    /\ cellOut = <<>>

\* the program is started from the command line (main) ...
InitMain ==
    /\ pc = "main"
    /\ args \in [main : {TRUE}, norwegian_only : BOOLEAN, international_only : BOOLEAN]
    /\ inputFile \in [readable : BOOLEAN, lines : SeqsUpTo(LinePool, MaxTests)]
    /\ inputFile.readable \/ inputFile.lines = <<>>
    /\ tests = <<>>
    /\ models = <<>>
    /\ Idle

\* ... or run_evaluation is called with a test list and a ModelSpec list
InitCall ==
    /\ pc = "run"
    /\ args = [main |-> FALSE, norwegian_only |-> FALSE, international_only |-> FALSE]
    /\ inputFile = NoFile
    /\ tests \in SeqsUpTo(TestPool, MaxTests)
    /\ models \in ModelLists
    /\ Idle

Init == InitMain \/ InitCall

\* main, lines 165-171
Select ==
    /\ pc = "main"
    /\ models' = SelectModels(args.norwegian_only, args.international_only)
    /\ pc' = "load"
    /\ UNCHANGED <<args, inputFile, tests, results, done, test_result, queried,
                   current, jsonFile, csvFile, csvOut, err, trace, faults, cellIn, cellOut>>

\* main, line 174: load_tests succeeds
Load ==
    /\ pc = "load"
    /\ ~LoadFails(inputFile)
    /\ tests' = LoadedRecords(inputFile.lines)
    /\ pc' = "run"
    /\ UNCHANGED <<args, inputFile, models, results, done, test_result, queried,
                   current, jsonFile, csvFile, csvOut, err, trace, faults, cellIn, cellOut>>

\* main, line 174: load_tests raises, nothing catches it
LoadError ==
    /\ pc = "load"
    /\ LoadFails(inputFile)
    /\ Gone("failed", "InputError")
    /\ UNCHANGED <<jsonFile, csvFile>>

\* run_evaluation, lines 63-70
BeginRun ==
    /\ pc = "run"
    /\ results' = [timestamp |-> "now", models |-> ModelNames(models), tests |-> <<>>]
    /\ current' = 0
    /\ pc' = "loop"
    /\ UNCHANGED <<args, inputFile, tests, models, done, test_result, queried,
                   jsonFile, csvFile, csvOut, err, trace, faults, cellIn, cellOut>>

\* lines 72-78: the next TestCase starts
NextTest ==
    /\ pc = "loop"
    /\ done < Len(tests)
    /\ test_result' = NewBundle(tests[done + 1])
    /\ queried' = 0
    /\ pc' = "query"
    /\ UNCHANGED <<args, inputFile, tests, models, results, done, current,
                   jsonFile, csvFile, csvOut, err, trace, faults, cellIn, cellOut>>

\* lines 80-86: one ModelSpec is queried and its answer stored
QueryModel ==
    /\ pc = "query"
    /\ queried < Len(models)
    /\ \E reply \in Replies :
         /\ reply = OutSuccess \/ faults < MaxFaults
         /\ faults' = IF reply = OutSuccess THEN faults ELSE faults + 1
         /\ LET m == models[queried + 1]
                r == query_ollama(BackendIdOf(m), test_result.question, DefaultTimeout, reply)
            IN /\ test_result' =
                    [test_result EXCEPT !.responses = DictSet(@, m[1], r.ret)]
               /\ trace' = Append(trace, QueryEvent(done + 1, queried + 1, reply, r))
    /\ current' = current + 1
    /\ queried' = queried + 1
    /\ UNCHANGED <<pc, args, inputFile, tests, models, results, done,
                   jsonFile, csvFile, csvOut, err, cellIn, cellOut>>

\* lines 89-90: the bundle is appended and the snapshot opened for writing,
\* which truncates it
OpenSnapshot ==
    /\ pc = "query"
    /\ queried = Len(models)
    /\ results' = [results EXCEPT !.tests = Append(@, test_result)]
    /\ jsonFile' = [NoJson EXCEPT !.exists = TRUE]
    /\ trace' = Append(trace, FileEvent("snapshot_open", done + 1))
    /\ pc' = "dump"
    /\ UNCHANGED <<args, inputFile, tests, models, done, test_result, queried,
                   current, csvFile, csvOut, err, faults, cellIn, cellOut>>

\* line 91: json.dump hands the document to the file piece by piece.  Either
\* the pieces reach the disk as they are written: what precedes the bundles
\* (timestamp, models), ...
DumpHead ==
    /\ pc = "dump"
    /\ ~jsonFile.head
    /\ jsonFile' = [jsonFile EXCEPT !.head = TRUE, !.models = results.models]
    /\ UNCHANGED <<pc, args, inputFile, tests, models, results, done, test_result,
                   queried, current, csvFile, csvOut, err, trace, faults, cellIn, cellOut>>

\* ... then each bundle, which is on disk in part before it is there in full, ...
DumpBundleStart ==
    /\ pc = "dump"
    /\ jsonFile.head
    /\ ~jsonFile.partial
    /\ Len(jsonFile.tests) < Len(DumpedTests(results))
    /\ jsonFile' = [jsonFile EXCEPT !.partial = TRUE]
    /\ UNCHANGED <<pc, args, inputFile, tests, models, results, done, test_result,
                   queried, current, csvFile, csvOut, err, trace, faults, cellIn, cellOut>>

DumpBundleEnd ==
    /\ pc = "dump"
    /\ jsonFile.partial
    /\ jsonFile' = [jsonFile EXCEPT
                      !.partial = FALSE,
                      !.tests = Append(@, DumpedTests(results)[Len(@) + 1])]
    /\ UNCHANGED <<pc, args, inputFile, tests, models, results, done, test_result,
                   queried, current, csvFile, csvOut, err, trace, faults, cellIn, cellOut>>

\* ... then what closes the document; the file is closed and the iteration ends
CloseSnapshot ==
    /\ pc = "dump"
    /\ jsonFile.head
    /\ ~jsonFile.partial
    /\ Len(jsonFile.tests) = Len(DumpedTests(results))
    /\ jsonFile' = [jsonFile EXCEPT !.tail = TRUE]
    /\ trace' = Append(trace, FileEvent("snapshot_close", done + 1))
    /\ done' = done + 1
    /\ pc' = "loop"
    /\ UNCHANGED <<args, inputFile, tests, models, results, test_result,
                   queried, current, csvFile, csvOut, err, faults, cellIn, cellOut>>

\* ... or the pieces stay in the file object's buffer and reach the disk
\* together when the file is closed
FlushAtClose ==
    /\ pc = "dump"
    /\ ~jsonFile.head
    /\ jsonFile' = [exists |-> TRUE, stale |-> FALSE, head |-> TRUE, models |-> results.models,
                    tests |-> DumpedTests(results), partial |-> FALSE, tail |-> TRUE]
    /\ trace' = Append(trace, FileEvent("snapshot_close", done + 1))
    /\ done' = done + 1
    /\ pc' = "loop"
    /\ UNCHANGED <<args, inputFile, tests, models, results, test_result,
                   queried, current, csvFile, csvOut, err, faults, cellIn, cellOut>>

\* line 99: after the last TestCase the table is opened for writing, which
\* truncates it
OpenCsv ==
    /\ pc = "loop"
    /\ done = Len(tests)
    /\ csvFile' = [exists |-> TRUE, stale |-> FALSE, text |-> <<>>, part |-> <<>>]
    /\ csvOut' = <<>>
    /\ trace' = Append(trace, FileEvent("csv_open", 0))
    /\ pc' = "csv_header"
    /\ UNCHANGED <<args, inputFile, tests, models, results, done, test_result,
                   queried, current, jsonFile, err, faults, cellIn, cellOut>>

\* lines 101-102: the header goes into the file object's buffer
WriteHeader ==
    /\ pc = "csv_header"
    /\ csvOut' = Append(csvOut, HeaderLine(ModelNames(models)))
    /\ pc' = "csv_rows"
    /\ UNCHANGED <<args, inputFile, tests, models, results, done, test_result,
                   queried, current, jsonFile, csvFile, err, trace, faults, cellIn, cellOut>>

\* lines 105-117: the row of the next bundle goes into the buffer
WriteRow ==
    /\ pc = "csv_rows"
    /\ Len(csvOut) - 1 < Len(results.tests)
    /\ LET row == RowOf(results.tests[Len(csvOut)], ModelNames(models))
       IN /\ row.ok
          /\ csvOut' = Append(csvOut, row.line)
    /\ UNCHANGED <<pc, args, inputFile, tests, models, results, done, test_result,
                   queried, current, jsonFile, csvFile, err, trace, faults, cellIn, cellOut>>

\* the buffer fills and is written out: more of what was written, in the
\* order it was written, is on disk
FlushCsv ==
    /\ pc = "csv_rows"
    /\ \E n \in (Len(csvFile.text) + 1)..Len(csvOut) :
         csvFile' = [csvFile EXCEPT !.text = SubSeq(csvOut, 1, n)]
    /\ UNCHANGED <<pc, args, inputFile, tests, models, results, done, test_result,
                   queried, current, jsonFile, csvOut, err, trace, faults, cellIn, cellOut>>

\* lines 105-117: building the row raises, nothing catches it; leaving the
\* `with` of line 99 closes the table, which writes the buffer out
RowError ==
    /\ pc = "csv_rows"
    /\ Len(csvOut) - 1 < Len(results.tests)
    /\ LET row == RowOf(results.tests[Len(csvOut)], ModelNames(models))
       IN /\ ~row.ok
          /\ Gone("failed", row.err)
    /\ csvFile' = [csvFile EXCEPT !.text = csvOut]
    /\ UNCHANGED jsonFile

\* lines 119-125: the table is closed, which writes the buffer out, and the
\* run returned
Finish ==
    /\ pc = "csv_rows"
    /\ Len(csvOut) - 1 = Len(results.tests)
    /\ csvFile' = [csvFile EXCEPT !.text = csvOut]
    /\ pc' = "done"
    /\ UNCHANGED <<args, inputFile, tests, models, results, done, test_result,
                   queried, current, jsonFile, csvOut, err, trace, faults, cellIn, cellOut>>

\* an OSError that nothing catches ends the process and leaves the files as
\* they are: a print fails (lines 54-61, 82, 86, 93, 96: stdout is a pipe
\* whose reader is gone), or the open or a write of an output file fails
\* before anything more reached the disk (lines 90-91, 99-117)
OutputError ==
    /\ pc \in {"run", "loop", "query", "dump", "csv_header", "csv_rows"}
    /\ Gone("failed", "OutputError")
    /\ UNCHANGED <<jsonFile, csvFile>>

\* lines 99-117: writing the table's buffer out, when it fills or when the
\* `with` is left, fails part-way (file size limit, disk full): what was
\* written before the failure stays on disk, and that can end inside a line
TableWriteError ==
    /\ pc = "csv_rows"
    /\ \E n \in Len(csvFile.text)..(Len(csvOut) - 1) :
         \E c \in 0..(Len(csvOut[n + 1]) - 1) :
            csvFile' = [csvFile EXCEPT !.text = SubSeq(csvOut, 1, n),
                                       !.part = SubSeq(csvOut[n + 1], 1, c)]
    /\ Gone("failed", "OutputError")
    /\ UNCHANGED jsonFile

\* the process is killed, or the machine goes down, at any point
Crash ==
    /\ pc \notin {"done", "failed", "crashed"}
    /\ Gone("crashed", "")
    /\ UNCHANGED <<jsonFile, csvFile>>

Next ==
    \/ Select
    \/ Load
    \/ LoadError
    \/ BeginRun
    \/ NextTest
    \/ QueryModel
    \/ OpenSnapshot
    \/ DumpHead
    \/ DumpBundleStart
    \/ DumpBundleEnd
    \/ CloseSnapshot
    \/ FlushAtClose
    \/ OpenCsv
    \/ WriteHeader
    \/ WriteRow
    \/ FlushCsv
    \/ RowError
    \/ Finish
    \/ OutputError
    \/ TableWriteError
    \/ Crash

Spec == Init /\ [][Next]_vars

(* ------------------- the response cell on its own --------------------- *)
\* a text of n characters, a tab at position p and a newline at position q
\* (0: none), letters elsewhere
TextOf(n, p, q) ==
    [k \in 1..n |-> IF k = p THEN TAB
                    ELSE IF k = q THEN NL
                    ELSE IF k % 2 = 1 THEN "a" ELSE "b"]

CellLengths == (0..MaxShort) \cup ((CellLimit - MaxOver)..(CellLimit + MaxOver))
CellMarks == {0, 1, 2, CellLimit - 1, CellLimit, CellLimit + 1}
CellInputs == {TextOf(n, p, q) : n \in CellLengths, p \in CellMarks, q \in CellMarks}

InitCell ==
    /\ pc = "cell"
    /\ args = [main |-> FALSE, norwegian_only |-> FALSE, international_only |-> FALSE]
    /\ inputFile = NoFile
    /\ tests = <<>>
    /\ models = <<>>
    /\ err = ""
    /\ results = NoResults
    /\ done = 0
    /\ test_result = NoBundle
    /\ queried = 0
    /\ current = 0
    /\ jsonFile = NoJson
    /\ csvFile = NoCsv
    /\ csvOut = <<>>
    /\ trace = <<>>
    /\ faults = 0
    /\ cellIn \in CellInputs
    /\ cellOut = <<>>

\* lines 113-115 for one stored response
ExportCell ==
    /\ pc = "cell"
    /\ cellOut' = ResponseCell(cellIn)
    /\ pc' = "cell_done"
    /\ UNCHANGED <<args, inputFile, tests, models, results, done, test_result, queried,
                   current, jsonFile, csvFile, csvOut, err, trace, faults, cellIn>>

SpecCell == InitCell /\ [][ExportCell]_vars

(* ----------------------- query_ollama on its own ---------------------- *)
Prompts == {PyStr(<<"H", "v", "a", "?">>), PyStr(<<"Z", NL>>), PyStr(<<>>), None}
QueryModels ==
    {NORWEGIAN_MODELS[k] : k \in 1..Len(NORWEGIAN_MODELS)}
    \cup {INTERNATIONAL_MODELS[k] : k \in 1..Len(INTERNATIONAL_MODELS)}
    \cup {ModelA, ModelB, ModelA2}

InitQuery ==
    /\ pc = "ask"
    /\ args = [main |-> FALSE, norwegian_only |-> FALSE, international_only |-> FALSE]
    /\ inputFile = NoFile
    /\ tests = <<>>
    /\ \E m \in QueryModels : models = <<m>>
    /\ \E p \in Prompts : test_result = [NoBundle EXCEPT !.question = p]
    /\ err = ""
    /\ results = NoResults
    /\ done = 0
    /\ queried = 0
    /\ current = 0
    /\ jsonFile = NoJson
    /\ csvFile = NoCsv
    /\ csvOut = <<>>
    /\ trace = <<>>
    /\ faults = 0
    /\ cellIn = <<>>
    /\ cellOut = <<>>

\* line 84 with any reply of the backend
AskOnce ==
    /\ pc = "ask"
    /\ \E reply \in AllReplies :
         trace' = <<QueryEvent(1, 1, reply,
                      query_ollama(BackendIdOf(models[1]), test_result.question,
                                   DefaultTimeout, reply))>>
    /\ pc' = "asked"
    /\ UNCHANGED <<args, inputFile, tests, models, results, done, test_result, queried,
                   current, jsonFile, csvFile, csvOut, err, faults, cellIn, cellOut>>

SpecQuery == InitQuery /\ [][AskOnce]_vars

(* ============================== properties ============================ *)
Live == pc \in {"run", "loop", "query", "dump", "csv_header", "csv_rows", "done"}
\* the run is under way and no snapshot write is in progress
Quiet == pc \in {"loop", "query", "csv_header", "csv_rows", "done"}

JsonComplete == jsonFile.head /\ jsonFile.tail /\ ~jsonFile.partial

DistinctNames(ms) ==
    \A a, b \in 1..Len(ms) : ms[a][1] = ms[b][1] => a = b

\* index in the history of the query of TestCase t to ModelSpec m, when
\* every TestCase takes Len(models) queries and an open and a close
QueryIndex(t, m) == (t - 1) * (Len(models) + 2) + m

(* C1: at every point of a run, and so after a crash at that point, the
   snapshot on disk is a syntactically complete document (opened, filled and
   closed), holds no bundle written in part, and, once the run has written
   it, holds exactly the bundles completed so far, up to the last one
   finished. *)
C1_SnapshotCrashConsistent ==
    /\ jsonFile.exists => JsonComplete
    /\ Live /\ jsonFile.exists /\ ~jsonFile.stale =>
         \/ jsonFile.tests = results.tests
         \/ /\ pc = "dump"
            /\ jsonFile.tests = SubSeq(results.tests, 1, Len(results.tests) - 1)

\* what C2 says of the snapshot once `done` TestCases have been processed
SnapshotHoldsProcessed ==
    /\ jsonFile.exists => JsonComplete
    /\ Len(jsonFile.tests) = done
    /\ \A k \in 1..Len(jsonFile.tests) :
         LET b == jsonFile.tests[k] IN
         /\ b.id = DictGet(tests[k], "id", PyStr(<<"u", "n", "k", "n", "o", "w", "n">>))
         /\ Cardinality(DOMAIN b.responses) = Len(models)
         /\ \A m \in 1..Len(models) :
              /\ models[m][1] \in DOMAIN b.responses
              /\ b.responses[models[m][1]] = trace[QueryIndex(k, m)].ret

(* C2 as stated: for every ModelSpec list, display names shared or not, once
   K TestCases have been processed the snapshot holds exactly K bundles, in
   test order, each with one response for every ModelSpec of the run. *)
C2_EveryModelList == Quiet => SnapshotHoldsProcessed

(* C2 amended: for every ModelSpec list whose display names are pairwise
   distinct, once K TestCases (1 <= K <= N) have been processed and until the
   next snapshot write begins, the snapshot holds exactly K bundles, in test
   order, each with the response of every ModelSpec of the run; with K = 0
   the run has written no snapshot: the file is absent or an earlier run's. *)
C2_DistinctNames ==
    /\ Quiet /\ DistinctNames(models) /\ done >= 1 => SnapshotHoldsProcessed
    /\ Quiet /\ done = 0 => (jsonFile.exists => jsonFile.stale)

\* the second of two TestCases is being queried, one of two models done
C2_Witness ==
    /\ pc = "query"
    /\ done = 1
    /\ Len(tests) = 2
    /\ Len(models) = 2
    /\ DistinctNames(models)
    /\ queried = 1
    /\ Len(jsonFile.tests) = 1
    /\ ~jsonFile.stale

(* C3: a run with zero TestCases or zero ModelSpecs that reaches its end has
   an empty bundle sequence and has itself written both the snapshot and the
   table. *)
C3_DegenerateRun ==
    pc = "done" /\ (tests = <<>> \/ models = <<>>) =>
        /\ results.tests = <<>>
        /\ jsonFile.exists /\ ~jsonFile.stale
        /\ csvFile.exists /\ ~csvFile.stale

(* C4: every query made one backend call and returned a string: the payload's
   response on success, [NO RESPONSE] when the payload object lacks the field,
   [TIMEOUT] on a timeout, [ERROR: <description>] on any other exception. *)
C4_QueryTotal ==
    \A x \in 1..Len(trace) :
        LET e == trace[x] IN
        e.k = "query" =>
            /\ e.calls = 1
            /\ IsStr(e.ret)
            /\ e.reply.kind = "timeout" => e.ret = PyStr(TIMEOUT)
            /\ e.reply.kind = "exception" => e.ret = PyStr(ErrorText(e.reply.desc))
            /\ e.reply.kind = "json" /\ e.reply.isdict /\ e.reply.response = Absent =>
                 e.ret = PyStr(NO_RESPONSE)
            /\ e.reply.kind = "json" /\ e.reply.isdict /\ e.reply.response # Absent =>
                 e.ret = e.reply.response

\* the question of TestCase t as the run holds it
HeldQuestion(t) ==
    IF t <= Len(results.tests) THEN results.tests[t].question ELSE test_result.question

(* C5: the history of a run is, for each TestCase in order, one query per
   ModelSpec in order (sent to that ModelSpec's backend id with that
   TestCase's question), then the snapshot's opening and closing, and after
   the last TestCase the opening of the table; the answers of the current
   TestCase are held under the display names; when the table is open all
   N*M queries have been made. *)
C5_QueryOrder ==
    Live =>
        LET N == Len(tests)
            M == Len(models)
            per == M + 2
        IN
        /\ Len(trace) <= N * per + 1
        /\ \A x \in 1..Len(trace) :
             LET e == trace[x]
                 t == ((x - 1) \div per) + 1
                 o == ((x - 1) % per) + 1
             IN
             IF x = N * per + 1 THEN e.k = "csv_open"
             ELSE IF o <= M THEN
                 /\ e.k = "query"
                 /\ e.t = t
                 /\ e.m = o
                 /\ e.req.model = models[o][2]
                 /\ e.req.prompt = HeldQuestion(t)
             ELSE IF o = M + 1 THEN e.k = "snapshot_open" /\ e.t = t
             ELSE e.k = "snapshot_close" /\ e.t = t
        /\ pc = "query" =>
             /\ Len(trace) = done * per + queried
             /\ DOMAIN test_result.responses = {models[m][1] : m \in 1..queried}
             /\ \A m \in 1..queried :
                  (\A m2 \in (m + 1)..queried : models[m2][1] # models[m][1]) =>
                      test_result.responses[models[m][1]] = trace[done * per + m].ret
        /\ pc = "dump" => Len(trace) = done * per + M + 1
        /\ pc = "loop" => Len(trace) = done * per
        /\ csvFile.exists /\ ~csvFile.stale => Len(trace) = N * per + 1
        /\ pc \in {"csv_header", "csv_rows", "done"} =>
             /\ Len(trace) = N * per + 1
             /\ Cardinality({x \in 1..Len(trace) : trace[x].k = "query"}) = N * M

\* a finished run of two TestCases over two ModelSpecs
C5_Witness ==
    /\ pc = "done"
    /\ Len(tests) = 2
    /\ Len(models) = 2
    /\ Len(trace) = 9

(* C6: a process that got past loading ends early only on an output error
   (and before that only on an input error), and a run that returns holds
   one bundle per TestCase. *)
C6_OnlyInputOutputErrors ==
    /\ pc = "failed" => err \in {"InputError", "OutputError"}
    /\ pc = "done" => Len(results.tests) = Len(tests)

(* C7: every line of the table, the header and each row, holds 3 + M
   tab-separated fields and is one line: M + 2 tabs, one newline, at its end;
   the header comes first and there is one row per bundle. *)
C7_RowIntegrity ==
    Live /\ csvFile.exists /\ ~csvFile.stale =>
        /\ Len(csvOut) <= 1 + Len(results.tests)
        /\ Len(csvFile.text) <= Len(csvOut)
        /\ csvFile.text = SubSeq(csvOut, 1, Len(csvFile.text))
        /\ pc = "done" => Len(csvFile.text) = 1 + Len(results.tests)
        /\ \A x \in 1..Len(csvOut) :
             LET line == csvOut[x] IN
             /\ Count(line, TAB) = Len(models) + 2
             /\ Count(line, NL) = 1
             /\ line[Len(line)] = NL

(* C8: the cell exported for a stored response is the response with each tab
   and each newline turned into a space, cut to its first 500 characters: it
   is never longer than 500 characters, and a response of at most 500
   characters with no tab and no newline is exported unchanged. *)
C8_ResponseCell ==
    pc = "cell_done" =>
        /\ Len(cellOut) = (IF Len(cellIn) <= 500 THEN Len(cellIn) ELSE 500)
        /\ \A k \in 1..Len(cellOut) :
             cellOut[k] = (IF cellIn[k] \in {TAB, NL} THEN SP ELSE cellIn[k])
        /\ Len(cellOut) <= 500
        /\ (Len(cellIn) <= 500 /\ \A k \in 1..Len(cellIn) : cellIn[k] \notin {TAB, NL})
             => cellOut = cellIn

\* a response longer than 500 characters holding a tab and a newline
C8_Witness ==
    /\ pc = "cell_done"
    /\ Len(cellIn) > 500
    /\ \E k \in 1..500 : cellIn[k] = TAB
    /\ \E k \in 1..500 : cellIn[k] = NL
    /\ Len(cellOut) = 500

(* C9: the model list main hands to the run is decided by the two flags:
   --norwegian-only (whatever the other flag) gives the Norwegian group,
   --international-only alone the international group, neither the Norwegian
   group followed by the international group, nothing added or dropped. *)
C9_ModelSelection ==
    args.main /\ pc \notin {"main", "failed", "crashed"} =>
        /\ args.norwegian_only =>
             models = << <<NameNB, "hf.co/NbAiLab/nb-llama-3.2-3B-Q4_K_M-GGUF:latest">> >>
        /\ ~args.norwegian_only /\ args.international_only =>
             models = << <<NameL32, "llama3.2:3b">>, <<NameM7, "mistral:7b">>,
                         <<NameL31, "llama3.1:8b">> >>
        /\ ~args.norwegian_only /\ ~args.international_only =>
             models = << <<NameNB, "hf.co/NbAiLab/nb-llama-3.2-3B-Q4_K_M-GGUF:latest">>,
                         <<NameL32, "llama3.2:3b">>, <<NameM7, "mistral:7b">>,
                         <<NameL31, "llama3.1:8b">> >>

\* a finished run started from main with neither flag, and one with both
C9_Witness ==
    /\ args.main
    /\ pc = "done"
    /\ \/ ~args.norwegian_only /\ ~args.international_only /\ Len(models) = 4
       \/ args.norwegian_only /\ args.international_only /\ Len(models) = 1

\* every bundle, and every query made for it, holds the question `want` gives
QuestionsAre(want) ==
    Live =>
        /\ \A k \in 1..Len(results.tests) : results.tests[k].question = want[tests[k]]
        /\ pc \in {"query", "dump"} => test_result.question = want[tests[done + 1]]
        /\ \A x \in 1..Len(trace) :
             trace[x].k = "query" => trace[x].req.prompt = want[tests[trace[x].t]]

\* C10 as stated: `question` whenever the record has it, else `q`
QuestionIfPresent(rec) ==
    IF rec.question # Absent THEN rec.question
    ELSE IF rec.q # Absent THEN rec.q
    ELSE None

\* C10 amended: `question` when the record has it and it is not empty (not
\* null, not 0), else `q`, else nothing
QuestionIfNonEmpty(rec) ==
    IF /\ rec.question # Absent
       /\ rec.question # None
       /\ rec.question.t = "str" => rec.question.s # <<>>
       /\ rec.question.t = "int" => rec.question.n # 0
    THEN rec.question
    ELSE IF rec.q # Absent THEN rec.q
    ELSE None

(* C10 as stated: the question stored in the bundle and sent with every query
   is the record's `question` whenever the record has that field, even when
   it is the empty string, and its `q` only when `question` is absent. *)
C10_QuestionWheneverPresent ==
    QuestionsAre([rec \in TestPool |-> QuestionIfPresent(rec)])

(* C10 amended: the question stored in the bundle and sent with every query
   is the record's `question` when that field is present and not empty, and
   otherwise the record's `q` (nothing when `q` is absent too); for a record
   holding only `q` it is the `q` value. *)
C10_QuestionWhenNonEmpty ==
    QuestionsAre([rec \in TestPool |-> QuestionIfNonEmpty(rec)])

\* a bundle made from a record whose `question` is empty, and one from a
\* record holding only `q`
C10_Witness ==
    /\ pc = "done"
    /\ Len(tests) = 2
    /\ tests[1] = RecEmptyQuestion
    /\ results.tests[1].question = PyStr(<<"Z">>)
    /\ tests[2] = RecOnlyQ
    /\ results.tests[2].question = PyStr(<<"Z", NL>>)

====
